---- MODULE Spec2Model ----
(***************************************************************************)
(* Model of the vision/voice bridge of the Visual Connector front-end:     *)
(* src/App.tsx (bridge loop), src/services/geminiService.ts (analyzer),    *)
(* the LiveFeed component (frame source) and                               *)
(* src/components/Conversation.tsx (voice toggle).                         *)
(*                                                                         *)
(* One action is one task of the browser event loop: an event handler or   *)
(* the continuation of an await, together with the React re-render and the *)
(* effects that the state updates of that task cause.                      *)
(*                                                                         *)
(* Strings are sequences of tokens.  The token " " is white space, the     *)
(* token "NO_CHANGE" is that substring, every other token is opaque text.  *)
(***************************************************************************)
EXTENDS Naturals, Sequences, FiniteSets, TLC

VARIABLES
    isActive,               \* App.tsx:14  useState(false)
    isStreamReady,          \* App.tsx:17  useState(false)
    processingState,        \* App.tsx:16  useState(ProcessingState.IDLE)
    intervalRef,            \* App.tsx:21  TRUE while a setInterval timer is live
    lastSnapshotRef,        \* App.tsx:23
    lastTextDescriptionRef, \* App.tsx:24
    logs,                   \* App.tsx:15
    steps,                  \* one record per invocation of performReasoningStep
    toggles,                \* number of clicks on the vision button so far
    camPending,             \* getUserMedia({video}) requests not yet settled
    srcObject,              \* video.srcObject is a live stream
    metaPending,            \* onloadedmetadata handler installed and not yet run
    status,                 \* conversation.status of the voice SDK
    agentId,                \* App.tsx:147 the agentId prop of Conversation
    micPending,             \* getUserMedia({audio}) requests not yet settled
    startPending,           \* startSession calls not yet settled
    endPending,             \* endSession calls not yet settled
    convError,              \* Conversation.tsx:12 useState(null)
    voiceEvents,            \* number of voice toggles and remote drops so far
    probe,                  \* arguments and result of a direct call of
                            \* getSnapshot or of the analyzer's pure parts
    timers,                 \* number of setInterval timers the browser holds
    env,                    \* process.env as vite.config.ts defines it
    localStorage,           \* the items GEMINI_API_KEY and AGENT_ID
    hasKey,                 \* App.tsx:18
    form,                   \* KeyEntryModal.tsx:12-13, the two input fields
    reloadPending,          \* window.location.reload() called, page still up
    confirmed               \* the arguments of the last onConfirm call

configVars == << env, localStorage, hasKey, form, reloadPending, confirmed >>

vars == << isActive, isStreamReady, processingState, intervalRef,
           lastSnapshotRef, lastTextDescriptionRef, logs, steps, toggles,
           camPending, srcObject, metaPending,
           status, agentId, micPending, startPending, endPending, convError,
           voiceEvents, probe, timers, configVars >>

appVars == << isActive, isStreamReady, processingState, intervalRef,
              lastSnapshotRef, lastTextDescriptionRef, logs, steps, toggles,
              camPending, srcObject, metaPending,
              status, agentId, micPending, startPending, endPending,
              convError, voiceEvents, timers, configVars >>

visionVars == << isActive, isStreamReady, processingState, intervalRef,
                 lastSnapshotRef, lastTextDescriptionRef, steps, toggles,
                 camPending, srcObject, metaPending, timers >>

voiceVars == << status, agentId, micPending, startPending, endPending,
                convError, voiceEvents >>

\* what the vision and voice handlers never touch
auxVars == << probe, configVars >>

----------------------------------------------------------------------------
(* Bounds of the exploration *)

\* the number of externally initiated events of one behaviour: clicks on the
\* vision button, invocations of the tick function, voice toggles and drops
MaxEvents == 5

----------------------------------------------------------------------------
(* Values *)

CAPTURE_INTERVAL_MS == 4000

\* JavaScript null for a snapshot (a data URL) and for a string
NullSnapshot == "null"
NullString == << "<null>" >>

\* the frame the camera shows at the n-th invocation of the tick function
Frames == <<"frame1", "frame2", "frame3", "frame4", "frame5", "frame6",
            "frame7", "frame8">>

\* what the video element shows when a tick samples it
\* context: canvas.getContext('2d') returns a context
Videos == [videoWidth : {0, 640}, videoHeight : {0, 480}, readyState : {1, 4},
           context : BOOLEAN]

\* the text the model produces when it describes the scene at invocation n
Descriptions == <<"A person enters the room.", "The person sits down.",
                  "He picks up a mug.", "He looks left.", "He leaves.",
                  "A cat walks in.", "It jumps on the desk.", "It leaves.">>

\* what the backend does with the generateContent request of invocation n
Responses(n) ==
    {[kind |-> "text", text |-> <<"NO_CHANGE", " ">>],
     [kind |-> "text", text |-> <<" ">>],
     [kind |-> "text", text |-> <<Descriptions[n], " ">>],
     [kind |-> "error", status |-> 429, message |-> <<"quota">>],
     [kind |-> "throw", status |-> 0, message |-> <<"An API Key must be set">>]}

----------------------------------------------------------------------------
(* Strings *)

RECURSIVE TrimStart(_)
TrimStart(s) ==
    IF s # << >> /\ Head(s) = " " THEN TrimStart(Tail(s)) ELSE s

RECURSIVE TrimEnd(_)
TrimEnd(s) ==
    IF s # << >> /\ s[Len(s)] = " " THEN TrimEnd(SubSeq(s, 1, Len(s) - 1)) ELSE s

\* String.prototype.trim
Trim(s) == TrimEnd(TrimStart(s))

\* String.prototype.includes
Includes(s, token) == \E i \in 1..Len(s) : s[i] = token

\* a variant that only rejects a missing value, not the empty string
Truthy_NullOnly(s) == s # NullString

\* JavaScript truthiness of a string | null
Truthy(s) == s # NullString /\ s # << >>

----------------------------------------------------------------------------
(* Frame source: LiveFeed.getSnapshot *)

\* Number.isFinite(videoHeight / videoWidth): x/0 is Infinity or NaN
IsFiniteRatio(videoHeight, videoWidth) == videoWidth # 0

\* HTMLMediaElement.HAVE_CURRENT_DATA, the literal of line 21
HAVE_CURRENT_DATA == 2

\* line 24
targetWidth == 512

\* Math.round(n / d) for n >= 0 and d > 0
Round(n, d) == (2 * n + d) \div (2 * d)

\* canvas.toDataURL: a canvas without pixels encodes as "data:,"
toDataURL(width, height, frame) ==
    IF width = 0 \/ height = 0 THEN "data:," ELSE frame

\* a variant without the readiness test of line 21
getSnapshot_NoReadyState(video, frame) ==
    IF video.videoWidth = 0 \/ video.videoHeight = 0 THEN NullSnapshot
    ELSE IF ~IsFiniteRatio(video.videoHeight, video.videoWidth) THEN NullSnapshot
    ELSE IF ~video.context THEN NullSnapshot
    ELSE LET targetHeight == Round(targetWidth * video.videoHeight,
                                   video.videoWidth)
             url == toDataURL(targetWidth, targetHeight, frame)
         IN  IF url = "data:," THEN NullSnapshot ELSE url

\* lines 17-41; the refs of line 18 are set while the component is mounted
getSnapshot(video, frame) ==
    IF video.videoWidth = 0 \/ video.videoHeight = 0 THEN NullSnapshot
    ELSE IF video.readyState < HAVE_CURRENT_DATA THEN NullSnapshot
    ELSE IF ~IsFiniteRatio(video.videoHeight, video.videoWidth) THEN NullSnapshot
    ELSE IF ~video.context THEN NullSnapshot
    ELSE LET targetHeight == Round(targetWidth * video.videoHeight,
                                   video.videoWidth)
             url == toDataURL(targetWidth, targetHeight, frame)
         IN  IF url = "data:," THEN NullSnapshot ELSE url

----------------------------------------------------------------------------
(* Vision analyzer: analyzeFrame of services/geminiService.ts *)

\* the catch block, lines 86-91: every backend failure becomes a result value
ClassifyError(resp) ==
    IF resp.status = 429 THEN <<"Error: Rate limit exceeded.">>
    ELSE IF resp.status = 403 THEN <<"Error: API key invalid.">>
    ELSE <<"Error: ">> \o (IF resp.message # << >> THEN resp.message
                           ELSE <<"Unknown observer malfunction">>)

\* a data URL is its 'data:image/...;base64,' prefix followed by the payload
DataUrl(payload) == <<"data:image/jpeg;base64,", payload>>

\* lines 41 and 54: replace(/^data:image\/\w+;base64,/, "")
StripDataUrlPrefix(url) ==
    IF url # << >> /\ Head(url) \in {"data:image/jpeg;base64,",
                                     "data:image/png;base64,"}
    THEN Tail(url) ELSE url

TextPart(text) == [kind |-> "text", text |-> text]
InlineData(data) == [kind |-> "inlineData", data |-> data,
                     mimeType |-> "image/jpeg"]

\* a variant that sends the current frame before the previous one
BuildParts_CurrentFirst(base64Image, previousBase64Image, lastDescription) ==
    LET base64Data == StripDataUrlPrefix(base64Image) IN
    (IF Truthy(lastDescription)
     THEN << TextPart(<<"PREVIOUS DESCRIPTION (Context established): \"">>
                      \o lastDescription \o <<"\"">>) >>
     ELSE << TextPart(<<"PREVIOUS DESCRIPTION: None (First observation. Describe the scene briefly.)">>) >>)
    \o << TextPart(<<"Current Visual Frame (Analyze change relative to context):">>),
          InlineData(base64Data) >>
    \o (IF Truthy(previousBase64Image)
        THEN << TextPart(<<"Previous Visual Frame:">>),
                InlineData(StripDataUrlPrefix(previousBase64Image)) >>
        ELSE << >>)

\* lines 41-71: the parts of the generateContent request
BuildParts(base64Image, previousBase64Image, lastDescription) ==
    LET base64Data == StripDataUrlPrefix(base64Image) IN
    (IF Truthy(lastDescription)
     THEN << TextPart(<<"PREVIOUS DESCRIPTION (Context established): \"">>
                      \o lastDescription \o <<"\"">>) >>
     ELSE << TextPart(<<"PREVIOUS DESCRIPTION: None (First observation. Describe the scene briefly.)">>) >>)
    \o (IF Truthy(previousBase64Image)
        THEN << TextPart(<<"Previous Visual Frame:">>),
                InlineData(StripDataUrlPrefix(previousBase64Image)) >>
        ELSE << >>)
    \o << TextPart(<<"Current Visual Frame (Analyze change relative to context):">>),
          InlineData(base64Data) >>

\* the outcome of one call: a returned string, or a rejection when the client
\* constructor of line 38, which is outside the try block, throws
analyzeFrame(resp) ==
    CASE resp.kind = "text"  -> [kind |-> "value", value |-> Trim(resp.text)]
      [] resp.kind = "error" -> [kind |-> "value", value |-> ClassifyError(resp)]
      [] resp.kind = "throw" -> [kind |-> "throw", value |-> resp.message]

----------------------------------------------------------------------------
(* Bridge loop: the pieces of performReasoningStep *)

\* lines 56-57: a tick is dropped while a call is pending
TickDropped(ps) ==
    (ps # "IDLE" /\ ps # "ANALYZING") \/ ps = "ANALYZING"

\* a variant that marks the tick as analyzing before it looks at the capture
StateAfterCapture_BeforeCheck(ps, snapshot) == "ANALYZING"

\* lines 60-62: the processing state after the capture
StateAfterCapture(ps, snapshot) ==
    IF snapshot = NullSnapshot THEN ps ELSE "ANALYZING"

\* a variant that forgets the test for an empty result
IsNoOp_SentinelOnly(result) == Includes(result, "NO_CHANGE")

\* line 73: the result needs no action
IsNoOp(result) ==
    Includes(result, "NO_CHANGE") \/ Len(Trim(result)) = 0

\* a variant without the finally block
StateAfterStep_NoFinally(ps) == ps

\* lines 93-95: the processing state when the invocation is over
StateAfterStep(ps) == "IDLE"

\* a variant in which every result replaces the previous observation
NextDescription_AlwaysReplace(prev, result) == result

\* lines 73-76: the previous observation after the analyzer returned result
NextDescription(prev, result) == IF IsNoOp(result) THEN prev ELSE result

\* a variant that also pushes while the session is still connecting
BridgeGate_NotDisconnected(capturedStatus) == capturedStatus # "disconnected"

\* a variant that suppresses the push once the loop has been stopped
BridgeGate_OnlyWhileActive(capturedStatus) ==
    capturedStatus = "connected" /\ isActive

\* line 79: the bridge gate, on the status the running closure captured
BridgeGate(capturedStatus) == capturedStatus = "connected"

\* a variant that sends the observation with a label in front
PushArgument_Labelled(result) == <<"[VISUAL_UPDATE]: ">> \o result

\* line 81: the argument of sendContextualUpdate
PushArgument(result) == result

\* a variant that does not repeat an entry the log already holds
addLog_Deduplicated(lg, type, message, tick) ==
    IF \E i \in DOMAIN lg : lg[i].type = type /\ lg[i].message = message
    THEN lg
    ELSE Append(lg, [type |-> type, message |-> message, tick |-> tick])

\* lines 39-46: addLog; tick is the invocation that wrote the entry, 0 if none
LogEntry(type, message, tick) ==
    [type |-> type, message |-> message, tick |-> tick]

addLog(lg, type, message, tick) == Append(lg, LogEntry(type, message, tick))

\* a variant that writes the 'bridge' entry before it awaits the push
PushOutcomeLog_BridgeBeforeAwait(lg, ok, t) ==
    IF ok THEN addLog(lg, "bridge", <<"Context synced to Agent.">>, t)
    ELSE addLog(addLog(lg, "bridge", <<"Context synced to Agent.">>, t),
                "error", <<"Bridge Sync Failed.">>, t)

\* lines 80-86: the log after the push of invocation t settled
PushOutcomeLog(lg, ok, t) ==
    IF ok THEN addLog(lg, "bridge", <<"Context synced to Agent.">>, t)
    ELSE addLog(lg, "error", <<"Bridge Sync Failed.">>, t)

\* the synchronous part of one invocation, lines 56-69: the record kept of it.
\* prevSnapshot, prevText are the arguments of the analyzer call, status is
\* conversation.status of the closure that runs, activation the number of
\* clicks on the vision button before the invocation, respKind what the
\* backend did, pushStatus the status of the session when the push was issued,
\* pushText the argument of sendContextualUpdate, pushOk how the push settled.
Invocation(ps, video, frame, act) ==
    LET snapshot == getSnapshot(video, frame) IN
    IF TickDropped(ps) THEN
        [outcome |-> "dropped", phase |-> "done", snapshot |-> NullSnapshot,
         prevSnapshot |-> NullSnapshot, prevText |-> NullString,
         status |-> status, activation |-> act, respKind |-> "none",
         result |-> NullString, pushed |-> FALSE, pushStatus |-> "none",
         pushText |-> NullString, pushOk |-> "none"]
    ELSE IF snapshot = NullSnapshot THEN
        [outcome |-> "absent", phase |-> "done", snapshot |-> NullSnapshot,
         prevSnapshot |-> NullSnapshot, prevText |-> NullString,
         status |-> status, activation |-> act, respKind |-> "none",
         result |-> NullString, pushed |-> FALSE, pushStatus |-> "none",
         pushText |-> NullString, pushOk |-> "none"]
    ELSE
        [outcome |-> "accepted", phase |-> "analyzing", snapshot |-> snapshot,
         prevSnapshot |-> lastSnapshotRef, prevText |-> lastTextDescriptionRef,
         status |-> status, activation |-> act, respKind |-> "none",
         result |-> NullString, pushed |-> FALSE, pushStatus |-> "none",
         pushText |-> NullString, pushOk |-> "none"]

StateAfterInvocation(ps, video, frame) ==
    IF TickDropped(ps) THEN ps
    ELSE StateAfterCapture(ps, getSnapshot(video, frame))


----------------------------------------------------------------------------
(* Credentials: vite.config.ts (src/unnamed/part_000), App.tsx lines 18-37, *)
(* 138-147, geminiService.ts line 38, components/KeyEntryModal.tsx          *)

\* process.env: vite.config.ts defines API_KEY and GEMINI_API_KEY from the
\* same build variable and every entry as '' when the variable is unset
Envs ==
    {[API_KEY |-> k, GEMINI_API_KEY |-> k, AGENT_ID |-> a] :
        k \in {<< >>, <<"env-key">>}, a \in {<< >>, <<"agent">>}}

\* localStorage: empty on a first visit, else what handleSubmit wrote
Storages ==
    {[GEMINI_API_KEY |-> NullString, AGENT_ID |-> NullString],
     [GEMINI_API_KEY |-> <<"stored-key">>, AGENT_ID |-> << >>],
     [GEMINI_API_KEY |-> <<"stored-key">>, AGENT_ID |-> <<"stored-agent">>]}

\* what the user can type into the two fields of the modal
KeyInputs == {<< >>, <<" ">>, <<"key1">>, <<" ", "key1", " ">>, <<"key2">>}
AgentInputs == {<< >>, <<"agent1">>, <<" ", "agent1", " ">>}

EmptyForm == [apiKey |-> << >>, agentId |-> << >>]
NotConfirmed == [apiKey |-> NullString, agentId |-> NullString]

\* a variant that looks at the environment only
HasKeyAfterMount_EnvOnly(e, ls) == Truthy(e.GEMINI_API_KEY)

\* App.tsx lines 18 and 26-37: hasKey after the mount effect
HasKeyAfterMount(e, ls) ==
    IF ~Truthy(e.GEMINI_API_KEY) THEN Truthy(ls.GEMINI_API_KEY)
    ELSE Truthy(e.GEMINI_API_KEY)

\* App.tsx line 147: process.env.AGENT_ID || localStorage.getItem(..) || ''
ResolveAgentId(e, ls) ==
    IF Truthy(e.AGENT_ID) THEN e.AGENT_ID
    ELSE IF Truthy(ls.AGENT_ID) THEN ls.AGENT_ID
    ELSE << >>

\* geminiService.ts line 38: the key the analyzer's client is built with
ClientApiKey(e, ls) == e.API_KEY

\* KeyEntryModal.tsx lines 15-24: a field without initial value takes the
\* stored one
Prefill(initial, stored) ==
    IF ~Truthy(initial) /\ Truthy(stored) THEN stored ELSE initial

FormAfterMount(ls) ==
    [apiKey |-> Prefill(<< >>, ls.GEMINI_API_KEY),
     agentId |-> Prefill(<< >>, ls.AGENT_ID)]

\* line 28 of handleSubmit
Accepts(f) == Truthy(Trim(f.apiKey))

\* a variant that stores the fields as they were typed
StorageAfterSubmit_Untrimmed(ls, f) ==
    IF Accepts(f)
    THEN [GEMINI_API_KEY |-> f.apiKey, AGENT_ID |-> f.agentId]
    ELSE ls

\* lines 28-30 of handleSubmit
StorageAfterSubmit(ls, f) ==
    IF Accepts(f)
    THEN [GEMINI_API_KEY |-> Trim(f.apiKey), AGENT_ID |-> Trim(f.agentId)]
    ELSE ls

\* line 31 of handleSubmit: the arguments of onConfirm
ConfirmAfterSubmit(c, f) ==
    IF Accepts(f)
    THEN [apiKey |-> Trim(f.apiKey), agentId |-> Trim(f.agentId)]
    ELSE c

----------------------------------------------------------------------------
(* Initial state: the page after the first render *)

Events == toggles + Len(steps) + voiceEvents

Budget == Events < MaxEvents

\* the page after its first render and mount effects, for one deployment
\* e and one content ls of the browser's storage
PageLoaded(e, ls) ==
    /\ isActive = FALSE
    /\ isStreamReady = FALSE
    /\ processingState = "IDLE"
    /\ intervalRef = FALSE
    /\ timers = 0
    /\ lastSnapshotRef = NullSnapshot
    /\ lastTextDescriptionRef = NullString
    /\ logs = << >>
    /\ steps = << >>
    /\ toggles = 0
    /\ camPending = 0
    /\ srcObject = FALSE
    /\ metaPending = FALSE
    /\ status = "disconnected"
    /\ agentId = ResolveAgentId(e, ls)
    /\ micPending = 0
    /\ startPending = 0
    /\ endPending = 0
    /\ convError = NullString
    /\ voiceEvents = 0
    /\ probe = [op |-> "none"]
    /\ env = e
    /\ localStorage = ls
    /\ hasKey = HasKeyAfterMount(e, ls)
    /\ form = IF HasKeyAfterMount(e, ls) THEN EmptyForm ELSE FormAfterMount(ls)
    /\ reloadPending = FALSE
    /\ confirmed = NotConfirmed

\* every deployment and every storage content
InitConfig == \E e \in Envs, ls \in Storages : PageLoaded(e, ls)

\* a deployment with a vision key, opened in a browser without stored items
Init ==
    \E e \in Envs :
        /\ Truthy(e.GEMINI_API_KEY)
        /\ PageLoaded(e, [GEMINI_API_KEY |-> NullString, AGENT_ID |-> NullString])

----------------------------------------------------------------------------
(* The heartbeat effect, App.tsx lines 117-133 *)

\* the effect re-runs when one of its dependencies changed in the render
HeartbeatRuns(a2, r2) == a2 # isActive \/ r2 # isStreamReady

\* a variant that starts the timer whenever the frame source is ready
HeartbeatActive_NoActiveGate(a2, r2) == r2

\* a variant that does not wait for the frame source
HeartbeatActive_NoReadyGate(a2, r2) == a2

\* line 118
HeartbeatActive(a2, r2) == a2 /\ r2

\* a variant that never calls clearInterval
TimerAfterInactive_NotCleared(timer) == timer

\* lines 125-128 and the cleanup of lines 130-132: the timer after a re-run
\* that does not take the active branch
TimerAfterInactive(timer) == FALSE

\* the live timers that intervalRef.current does not name
Unreferenced(n, ref) == IF ref THEN n - 1 ELSE n

\* lines 130-132: the cleanup clears the timer that intervalRef.current names
TimersAfterCleanup(n, ref) == Unreferenced(n, ref)

\* a video element without a stream has no dimensions
VideosNow(src) ==
    IF src THEN Videos
    ELSE {v \in Videos : v.videoWidth = 0 /\ v.videoHeight = 0}

\* The render that follows a handler which leaves isActive = a2,
\* isStreamReady = r2, processingState = ps, logs = lg and video.srcObject = src,
\* after used events of the budget
Heartbeat(a2, r2, ps, lg, src, used, act) ==
    IF ~HeartbeatRuns(a2, r2) THEN
        /\ logs' = lg
        /\ processingState' = ps
        /\ UNCHANGED << steps, intervalRef, timers >>
    ELSE IF HeartbeatActive(a2, r2) THEN
        /\ used < MaxEvents
        /\ \E video \in VideosNow(src) :
              LET frame == Frames[Len(steps) + 1] IN
              /\ steps' = Append(steps, Invocation(ps, video, frame, act))
              /\ processingState' = StateAfterInvocation(ps, video, frame)
        /\ logs' = addLog(lg, "success", <<"Vision Loop active. Interval: 4000ms">>, 0)
        /\ intervalRef' = TRUE
        /\ timers' = TimersAfterCleanup(timers, intervalRef) + 1
    ELSE
        /\ logs' = lg
        /\ processingState' = ps
        /\ steps' = steps
        /\ intervalRef' = TimerAfterInactive(intervalRef)
        /\ timers' = Unreferenced(timers, intervalRef)
                        + (IF intervalRef' THEN 1 ELSE 0)

----------------------------------------------------------------------------
(* Vision loop *)

\* toggleVisualSystem, else branch (lines 111-114), the LiveFeed effect that
\* starts the camera and the heartbeat effect
Start ==
    /\ UNCHANGED auxVars
    /\ ~isActive
    /\ Budget
    /\ toggles' = toggles + 1
    /\ isActive' = TRUE
    /\ camPending' = camPending + 1
    /\ Heartbeat(TRUE, isStreamReady, processingState,
                 addLog(logs, "info", <<"Initializing Visual Cortex...">>, 0),
                 srcObject, Events + 1, toggles + 1)
    /\ UNCHANGED << isStreamReady, lastSnapshotRef, lastTextDescriptionRef,
                    srcObject, metaPending >>
    /\ UNCHANGED voiceVars

\* a variant that ends the voice session together with the loop
EndCallsAfterStop_Disconnects(n, st) == IF st = "connected" THEN n + 1 ELSE n

\* lines 105-110 hold no call of endSession
EndCallsAfterStop(n, st) == n

\* toggleVisualSystem, then branch (lines 105-110), the LiveFeed effect that
\* stops the tracks and reports not ready, and the heartbeat effect
Stop ==
    /\ UNCHANGED auxVars
    /\ isActive
    /\ Budget
    /\ toggles' = toggles + 1
    /\ isActive' = FALSE
    /\ lastSnapshotRef' = NullSnapshot
    /\ lastTextDescriptionRef' = NullString
    /\ srcObject' = FALSE
    /\ metaPending' = FALSE
    /\ isStreamReady' = FALSE
    /\ Heartbeat(FALSE, FALSE, "IDLE",
                 addLog(logs, "info", <<"Visual Cortex Deactivated.">>, 0),
                 FALSE, Events + 1, toggles + 1)
    /\ UNCHANGED camPending
    /\ endPending' = EndCallsAfterStop(endPending, status)
    /\ UNCHANGED << status, agentId, micPending, startPending, convError,
                    voiceEvents >>

\* getUserMedia({video}) resolves: lines 55-62 of the LiveFeed effect
CameraGranted ==
    /\ UNCHANGED auxVars
    /\ camPending > 0
    /\ camPending' = camPending - 1
    /\ srcObject' = TRUE
    /\ metaPending' = TRUE
    /\ UNCHANGED << isActive, isStreamReady, processingState, intervalRef,
                    lastSnapshotRef, lastTextDescriptionRef, logs, steps, toggles,
                    timers >>
    /\ UNCHANGED voiceVars

\* getUserMedia({video}) rejects: the catch of the LiveFeed effect
CameraDenied ==
    /\ UNCHANGED auxVars
    /\ camPending > 0
    /\ camPending' = camPending - 1
    /\ isStreamReady' = FALSE
    /\ Heartbeat(isActive, FALSE, processingState, logs, srcObject, Events, toggles)
    /\ UNCHANGED << isActive, lastSnapshotRef, lastTextDescriptionRef, toggles,
                    srcObject, metaPending >>
    /\ UNCHANGED voiceVars

\* video.onloadedmetadata: onReady reports whether the video has dimensions
LoadedMetadata ==
    /\ UNCHANGED auxVars
    /\ metaPending
    /\ metaPending' = FALSE
    /\ \E video \in VideosNow(srcObject) :
          LET ready == video.videoWidth > 0 /\ video.videoHeight > 0 IN
          /\ isStreamReady' = ready
          /\ Heartbeat(isActive, ready, processingState, logs, srcObject, Events, toggles)
    /\ UNCHANGED << isActive, lastSnapshotRef, lastTextDescriptionRef, toggles,
                    camPending, srcObject >>
    /\ UNCHANGED voiceVars

\* the callback of setInterval, lines 121-123
TimerTick ==
    /\ UNCHANGED auxVars
    /\ timers > 0
    /\ Budget
    /\ \E video \in VideosNow(srcObject) :
          LET frame == Frames[Len(steps) + 1] IN
          /\ steps' = Append(steps, Invocation(processingState, video, frame, toggles))
          /\ processingState' = StateAfterInvocation(processingState, video, frame)
    /\ UNCHANGED << isActive, isStreamReady, intervalRef, lastSnapshotRef,
                    lastTextDescriptionRef, logs, toggles,
                    camPending, srcObject, metaPending, timers >>
    /\ UNCHANGED voiceVars

\* the analyzer call of invocation t settles: lines 65-79 and 90-95
AnalyzerSettles(t, resp) ==
    /\ UNCHANGED auxVars
    /\ steps[t].phase = "analyzing"
    /\ LET out == analyzeFrame(resp)
           result == out.value
       IN
       IF out.kind = "throw" THEN
           /\ logs' = addLog(logs, "error", <<"Observer Malfunction: ">> \o out.value, t)
           /\ processingState' = StateAfterStep(processingState)
           /\ steps' = [steps EXCEPT ![t].phase = "done", ![t].respKind = resp.kind]
           /\ UNCHANGED << lastSnapshotRef, lastTextDescriptionRef >>
       ELSE IF IsNoOp(result) THEN
           /\ lastSnapshotRef' = steps[t].snapshot
           /\ processingState' = StateAfterStep(processingState)
           /\ steps' = [steps EXCEPT ![t].phase = "done", ![t].respKind = resp.kind,
                                     ![t].result = result]
           /\ lastTextDescriptionRef' =
                  NextDescription(lastTextDescriptionRef, result)
           /\ UNCHANGED logs
       ELSE
           /\ lastSnapshotRef' = steps[t].snapshot
           /\ lastTextDescriptionRef' =
                  NextDescription(lastTextDescriptionRef, result)
           /\ logs' = addLog(logs, "visual", result, t)
           /\ IF BridgeGate(steps[t].status) THEN
                  /\ steps' = [steps EXCEPT ![t].phase = "pushing",
                                            ![t].respKind = resp.kind,
                                            ![t].result = result,
                                            ![t].pushed = TRUE,
                                            ![t].pushText = PushArgument(result),
                                            ![t].pushStatus = status]
                  /\ UNCHANGED processingState
              ELSE
                  /\ steps' = [steps EXCEPT ![t].phase = "done",
                                            ![t].respKind = resp.kind,
                                            ![t].result = result]
                  /\ processingState' = StateAfterStep(processingState)
    /\ UNCHANGED << isActive, isStreamReady, intervalRef, toggles,
                    camPending, srcObject, metaPending, timers >>
    /\ UNCHANGED voiceVars

\* sendContextualUpdate of invocation t settles: lines 81-86 and 93-95
PushSettles(t, ok) ==
    /\ UNCHANGED auxVars
    /\ steps[t].phase = "pushing"
    /\ logs' = PushOutcomeLog(logs, ok, t)
    /\ processingState' = StateAfterStep(processingState)
    /\ steps' = [steps EXCEPT ![t].phase = "done",
                              ![t].pushOk = IF ok THEN "ok" ELSE "failed"]
    /\ UNCHANGED << isActive, isStreamReady, intervalRef, lastSnapshotRef,
                    lastTextDescriptionRef, toggles, camPending, srcObject,
                    metaPending, timers >>
    /\ UNCHANGED voiceVars

----------------------------------------------------------------------------
(* Voice session *)

\* a variant that predicts the transition before the service reports it
StatusAfterToggle_Predicted(st, id) ==
    IF Truthy(id) /\ st = "disconnected" THEN "connecting" ELSE st

\* lines 14-30 hold no assignment to the session status: it is read from
\* the hook (line 10) and written by the service only
StatusAfterToggle(st, id) == st

\* toggleConversation, lines 14-26, up to its first await.  The button is
\* disabled while the status is 'connecting' (line 54).
ToggleConversation ==
    /\ UNCHANGED auxVars
    /\ status # "connecting"
    /\ Budget
    /\ voiceEvents' = voiceEvents + 1
    /\ IF ~Truthy(agentId) THEN
           /\ convError' = <<"No Agent ID configured.">>
           /\ UNCHANGED << micPending, endPending >>
       ELSE IF status = "connected" THEN
           /\ convError' = NullString
           /\ endPending' = endPending + 1
           /\ UNCHANGED micPending
       ELSE
           /\ convError' = NullString
           /\ micPending' = micPending + 1
           /\ UNCHANGED endPending
    /\ status' = StatusAfterToggle(status, agentId)
    /\ UNCHANGED << agentId, startPending >>
    /\ UNCHANGED visionVars
    /\ UNCHANGED logs

\* a variant that goes on to startSession although the request was denied
StartCallsAfterMic_Always(n, granted) == n + 1

\* lines 24-25: startSession is called after the awaited microphone request,
\* which throws into the catch of line 27 when it is denied
StartCallsAfterMic(n, granted) == IF granted THEN n + 1 ELSE n

\* getUserMedia({audio}) resolves and startSession is called, line 25; the
\* SDK reports 'connecting'
MicGranted ==
    /\ UNCHANGED auxVars
    /\ micPending > 0
    /\ micPending' = micPending - 1
    /\ startPending' = StartCallsAfterMic(startPending, TRUE)
    /\ status' = IF status = "disconnected" THEN "connecting" ELSE status
    /\ UNCHANGED << agentId, endPending, convError, voiceEvents >>
    /\ UNCHANGED visionVars
    /\ UNCHANGED logs

\* getUserMedia({audio}) rejects: the catch of lines 27-29
MicDenied ==
    /\ UNCHANGED auxVars
    /\ micPending > 0
    /\ micPending' = micPending - 1
    /\ convError' = <<"Permission denied">>
    /\ startPending' = StartCallsAfterMic(startPending, FALSE)
    /\ UNCHANGED << status, agentId, endPending, voiceEvents >>
    /\ UNCHANGED visionVars
    /\ UNCHANGED logs

\* the service reports the connection: onConnect, App.tsx line 49
SessionConnected ==
    /\ UNCHANGED auxVars
    /\ startPending > 0
    /\ startPending' = startPending - 1
    /\ status' = "connected"
    /\ logs' = addLog(logs, "success", <<"Voice Link Established.">>, 0)
    /\ UNCHANGED << agentId, micPending, endPending, convError, voiceEvents >>
    /\ UNCHANGED visionVars

\* startSession rejects: the catch of lines 27-29
SessionFailed ==
    /\ UNCHANGED auxVars
    /\ startPending > 0
    /\ startPending' = startPending - 1
    /\ status' = IF status = "connecting" THEN "disconnected" ELSE status
    /\ convError' = <<"Connection Failed">>
    /\ UNCHANGED << agentId, micPending, endPending, voiceEvents >>
    /\ UNCHANGED visionVars
    /\ UNCHANGED logs

\* endSession completes; the service reports the disconnection when there
\* was a session: onDisconnect, App.tsx line 50
SessionEnded ==
    /\ UNCHANGED auxVars
    /\ endPending > 0
    /\ endPending' = endPending - 1
    /\ status' = "disconnected"
    /\ logs' = IF status = "connected"
               THEN addLog(logs, "info", <<"Voice Link Terminated.">>, 0)
               ELSE logs
    /\ UNCHANGED << agentId, micPending, startPending, convError, voiceEvents >>
    /\ UNCHANGED visionVars

\* the service drops the connection: onDisconnect, App.tsx line 50
ServiceDrop ==
    /\ UNCHANGED auxVars
    /\ status = "connected"
    /\ Budget
    /\ voiceEvents' = voiceEvents + 1
    /\ status' = "disconnected"
    /\ logs' = addLog(logs, "info", <<"Voice Link Terminated.">>, 0)
    /\ UNCHANGED << agentId, micPending, startPending, endPending, convError >>
    /\ UNCHANGED visionVars

----------------------------------------------------------------------------

Next ==
    \/ Start
    \/ Stop
    \/ CameraGranted
    \/ CameraDenied
    \/ LoadedMetadata
    \/ TimerTick
    \/ \E t \in 1..Len(steps) : \E resp \in Responses(t) : AnalyzerSettles(t, resp)
    \/ \E t \in 1..Len(steps), ok \in BOOLEAN : PushSettles(t, ok)
    \/ ToggleConversation
    \/ MicGranted
    \/ MicDenied
    \/ SessionConnected
    \/ SessionFailed
    \/ SessionEnded
    \/ ServiceDrop

Spec == Init /\ [][Next]_vars

----------------------------------------------------------------------------
(* Type invariant *)

----------------------------------------------------------------------------
(* Direct calls of the pure functions, over wider arguments than the       *)
(* running program produces in a short behaviour                           *)

\* video elements: no stream, a stream of ordinary size, a very wide one
\* whose scaled height rounds to 0; every readyState; with/without context
ProbeVideos == [videoWidth : {0, 640, 4096}, videoHeight : {0, 1, 480},
                readyState : 0..4, context : BOOLEAN]

\* backend failures by kind: what generateContent rejects with
ProbeFailures ==
    {[failure |-> "rate_limit", kind |-> "error", status |-> 429,
      message |-> <<"Resource has been exhausted">>],
     [failure |-> "auth", kind |-> "error", status |-> 403,
      message |-> <<"Permission denied">>],
     [failure |-> "network", kind |-> "error", status |-> 0,
      message |-> <<"Failed to fetch">>],
     [failure |-> "safety", kind |-> "error", status |-> 0,
      message |-> <<"Response was blocked due to safety">>],
     [failure |-> "unclassified", kind |-> "error", status |-> 500,
      message |-> <<"Internal error">>],
     [failure |-> "unclassified", kind |-> "error", status |-> 0,
      message |-> << >>]}

\* the arguments App.tsx lines 65-69 can pass: a snapshot, the previous
\* snapshot or null, the previous description or null
ProbeImages == {DataUrl(Frames[n]) : n \in 1..3}
ProbeDescriptions == {<<Descriptions[n]>> : n \in 1..3}
                        \cup {<<"Error: Rate limit exceeded.">>}

ProbeGetSnapshot ==
    /\ \E video \in ProbeVideos :
          probe' = [op |-> "getSnapshot", video |-> video,
                    result |-> getSnapshot(video, Frames[1])]
    /\ UNCHANGED appVars

ProbeBuildParts ==
    /\ \E base64Image \in ProbeImages,
          previousBase64Image \in ProbeImages \cup {NullString},
          lastDescription \in ProbeDescriptions \cup {NullString} :
          probe' = [op |-> "buildParts",
                    base64Image |-> base64Image,
                    previousBase64Image |-> previousBase64Image,
                    lastDescription |-> lastDescription,
                    parts |-> BuildParts(base64Image, previousBase64Image,
                                         lastDescription)]
    /\ UNCHANGED appVars

\* two calls that fail, to compare what they return
ProbeAnalyzeFrame ==
    /\ \E a \in ProbeFailures, b \in ProbeFailures :
          probe' = [op |-> "analyzeFrame", a |-> a, b |-> b,
                    resultA |-> analyzeFrame(a),
                    resultB |-> analyzeFrame(b)]
    /\ UNCHANGED appVars

NextPure ==
    \/ ProbeGetSnapshot
    \/ ProbeBuildParts
    \/ ProbeAnalyzeFrame

SpecPure == Init /\ [][NextPure]_vars

----------------------------------------------------------------------------
(* The bridge loop when every pending call completes *)

SpecLive ==
    /\ Spec
    /\ WF_vars(\E t \in 1..Len(steps) : \E resp \in Responses(t) :
                  AnalyzerSettles(t, resp))
    /\ WF_vars(\E t \in 1..Len(steps), ok \in BOOLEAN : PushSettles(t, ok))

----------------------------------------------------------------------------
(* The credential modal and the page reload *)

pageVars == << visionVars, logs, status, micPending, startPending, endPending,
               convError, voiceEvents >>

\* the user edits the key field of the modal, KeyEntryModal.tsx line 55
TypeApiKey ==
    /\ ~hasKey
    /\ \E k \in KeyInputs : form' = [form EXCEPT !.apiKey = k]
    /\ UNCHANGED << env, localStorage, hasKey, reloadPending, confirmed >>
    /\ UNCHANGED << pageVars, agentId, probe >>

\* the user edits the agent field of the modal, KeyEntryModal.tsx line 69
TypeAgentId ==
    /\ ~hasKey
    /\ \E a \in AgentInputs : form' = [form EXCEPT !.agentId = a]
    /\ UNCHANGED << env, localStorage, hasKey, reloadPending, confirmed >>
    /\ UNCHANGED << pageVars, agentId, probe >>

\* handleSubmit, KeyEntryModal.tsx lines 26-33, with the onConfirm of
\* App.tsx lines 140-143; the button is disabled while the key field is
\* empty (line 78), and reload() returns before the page goes away
Submit ==
    /\ ~hasKey
    /\ Truthy(form.apiKey)
    /\ localStorage' = StorageAfterSubmit(localStorage, form)
    /\ confirmed' = ConfirmAfterSubmit(confirmed, form)
    /\ reloadPending' = (reloadPending \/ Accepts(form))
    /\ UNCHANGED << env, hasKey, form >>
    /\ UNCHANGED << pageVars, agentId, probe >>

\* the reload takes place: the page is rendered anew from the environment
\* and the storage
Reload ==
    /\ reloadPending
    /\ reloadPending' = FALSE
    /\ isActive' = FALSE
    /\ isStreamReady' = FALSE
    /\ processingState' = "IDLE"
    /\ intervalRef' = FALSE
    /\ timers' = 0
    /\ lastSnapshotRef' = NullSnapshot
    /\ lastTextDescriptionRef' = NullString
    /\ logs' = << >>
    /\ status' = "disconnected"
    /\ micPending' = 0
    /\ startPending' = 0
    /\ endPending' = 0
    /\ convError' = NullString
    /\ srcObject' = FALSE
    /\ metaPending' = FALSE
    /\ camPending' = 0
    /\ agentId' = ResolveAgentId(env, localStorage)
    /\ hasKey' = HasKeyAfterMount(env, localStorage)
    /\ form' = IF HasKeyAfterMount(env, localStorage) THEN EmptyForm
               ELSE FormAfterMount(localStorage)
    /\ UNCHANGED << env, localStorage, confirmed, probe, steps, toggles,
                    voiceEvents >>

\* a tick of the vision loop builds the analyzer's client
ProbeClient ==
    /\ hasKey
    /\ probe' = [op |-> "client", apiKey |-> ClientApiKey(env, localStorage)]
    /\ UNCHANGED appVars

NextConfig ==
    \/ TypeApiKey
    \/ TypeAgentId
    \/ Submit
    \/ Reload
    \/ ProbeClient

SpecConfig == InitConfig /\ [][NextConfig]_vars

TypeOK ==
    /\ probe.op \in {"none", "getSnapshot", "buildParts", "analyzeFrame",
                     "client"}
    /\ timers \in 0..1
    /\ hasKey \in BOOLEAN
    /\ reloadPending \in BOOLEAN
    /\ isActive \in BOOLEAN
    /\ isStreamReady \in BOOLEAN
    /\ processingState \in {"IDLE", "ANALYZING"}
    /\ intervalRef \in BOOLEAN
    /\ Events <= MaxEvents
    /\ status \in {"disconnected", "connecting", "connected"}

----------------------------------------------------------------------------
(* Vocabulary of the properties *)

Ticks == 1..Len(steps)

Accepted(t) == steps[t].outcome = "accepted"

\* the analyzer call of invocation t has not settled
InFlight(t) == steps[t].phase = "analyzing"

\* the analyzer call of invocation t returned a string
Returned(t) == steps[t].respKind \in {"text", "error"}

\* invocation t is over, its push included
Finished(t) == Accepted(t) /\ steps[t].phase = "done"

\* the analyzer call of invocation t settles in this step
Settles(t) == steps[t].phase = "analyzing" /\ steps'[t].phase # "analyzing"

\* the sentinel, or nothing but white space
SentinelOrEmpty(r) ==
    (\E i \in DOMAIN r : r[i] = "NO_CHANGE") \/ (\A i \in DOMAIN r : r[i] = " ")

\* the log entries of category type written by invocation t
EntriesOf(lg, type, t) ==
    {i \in DOMAIN lg : lg[i].type = type /\ lg[i].tick = t}

\* the latest accepted invocation before t, 0 if there is none
RECURSIVE PrecedingAccepted(_)
PrecedingAccepted(t) ==
    IF t <= 1 THEN 0
    ELSE IF Accepted(t - 1) THEN t - 1
    ELSE PrecedingAccepted(t - 1)

\* t is the first analyzer call of its activation
FirstOfActivation(t) ==
    /\ Accepted(t)
    /\ \A p \in 1..(t - 1) :
          Accepted(p) => steps[p].activation # steps[t].activation

----------------------------------------------------------------------------
(* C1: at most one analyzer call is in flight at any time, whatever the    *)
(* sequence of ticks, start/stop toggles, readiness changes and analyzer   *)
(* completions.                                                            *)

C1_AtMostOneInFlight ==
    Cardinality({t \in Ticks : InFlight(t)}) <= 1

(* C2: a context push is issued only while the voice session is in the     *)
(* connected state.                                                        *)

C2_PushOnlyWhileConnected ==
    \A t \in Ticks : steps[t].pushed => steps[t].pushStatus = "connected"

(* C3, as stated: an accepted tick whose result is a non-sentinel,         *)
(* non-empty string has exactly one 'visual' log entry, and has a 'bridge' *)
(* log entry if and only if the voice session was connected at call time.  *)

C3_BridgeIffConnected ==
    \A t \in Ticks :
        (Finished(t) /\ Returned(t) /\ ~SentinelOrEmpty(steps[t].result)) =>
            /\ Cardinality(EntriesOf(logs, "visual", t)) = 1
            /\ (EntriesOf(logs, "bridge", t) # {}) <=> (steps[t].status = "connected")

(* C3, amended: an accepted tick whose result is a non-sentinel, non-empty *)
(* string has exactly one 'visual' log entry whose message is the result,  *)
(* and has a 'bridge' log entry, exactly one, if and only if the voice     *)
(* session was connected at call time and the push did not fail; when the  *)
(* push failed it has one 'error' entry instead.                           *)

C3_BridgeIffConnectedAndPushed ==
    \A t \in Ticks :
        (Finished(t) /\ Returned(t) /\ ~SentinelOrEmpty(steps[t].result)) =>
            /\ Cardinality(EntriesOf(logs, "visual", t)) = 1
            /\ \A i \in EntriesOf(logs, "visual", t) : logs[i].message = steps[t].result
            /\ Cardinality(EntriesOf(logs, "bridge", t)) =
                  (IF steps[t].status = "connected" /\ steps[t].pushOk = "ok"
                   THEN 1 ELSE 0)
            /\ Cardinality(EntriesOf(logs, "error", t)) =
                  (IF steps[t].status = "connected" /\ steps[t].pushOk = "failed"
                   THEN 1 ELSE 0)

C3_Witness ==
    \E t, u \in Ticks :
        /\ Finished(t) /\ Returned(t) /\ ~SentinelOrEmpty(steps[t].result)
        /\ steps[t].status = "connected" /\ steps[t].pushOk = "ok"
        /\ EntriesOf(logs, "bridge", t) # {}
        /\ Finished(u) /\ Returned(u) /\ ~SentinelOrEmpty(steps[u].result)
        /\ steps[u].status # "connected"
        /\ EntriesOf(logs, "visual", u) # {}

(* C4: an accepted tick whose analyzer result is the sentinel NO_CHANGE or *)
(* is empty after trimming appends no 'visual' and no 'bridge' log entry,  *)
(* issues no context push and leaves the previous observation unchanged.   *)

C4_SentinelIsSilent ==
    /\ [](\A t \in Ticks :
            (Finished(t) /\ Returned(t) /\ SentinelOrEmpty(steps[t].result)) =>
                /\ EntriesOf(logs, "visual", t) = {}
                /\ EntriesOf(logs, "bridge", t) = {}
                /\ ~steps[t].pushed)
    /\ [][\A t \in Ticks :
            (Settles(t) /\ Returned(t)' /\ SentinelOrEmpty(steps'[t].result)) =>
                /\ lastTextDescriptionRef' = lastTextDescriptionRef
                /\ logs' = logs
                /\ steps'[t].phase = "done"]_vars

C4_Witness ==
    \E t, u \in Ticks :
        /\ Finished(t) /\ Returned(t) /\ steps[t].result = << >>
        /\ Finished(u) /\ Returned(u) /\ steps[u].result = <<"NO_CHANGE">>
        /\ Truthy(lastTextDescriptionRef)

(* C5: the previous snapshot passed to the analyzer on an accepted tick is *)
(* the snapshot captured on the immediately preceding accepted tick,       *)
(* whatever the outcome of that tick.                                      *)

C5_PreviousIsPrecedingSnapshot ==
    \A t \in Ticks :
        (Accepted(t) /\ PrecedingAccepted(t) # 0) =>
            steps[t].prevSnapshot = steps[PrecedingAccepted(t)].snapshot

(* C6: stopping clears the previous snapshot and the previous observation, *)
(* and the first analyzer call of a later activation receives no prior     *)
(* image and no prior text, whatever was pending at the stop.              *)

C6_FreshContextAfterStop ==
    \A t \in Ticks :
        FirstOfActivation(t) =>
            /\ steps[t].prevSnapshot = NullSnapshot
            /\ steps[t].prevText = NullString

(* C7: a tick on which the capture returns absent makes no analyzer call,  *)
(* leaves the processing state idle, appends no log entry and leaves the   *)
(* previous snapshot and the previous observation unchanged.               *)

C7_AbsentCaptureIsNoOp ==
    /\ [](\A t \in Ticks :
            steps[t].outcome = "absent" =>
                /\ steps[t].phase = "done"
                /\ steps[t].respKind = "none"
                /\ \A i \in DOMAIN logs : logs[i].tick # t)
    /\ [][(Len(steps') = Len(steps) + 1 /\ steps'[Len(steps')].outcome = "absent") =>
            /\ processingState = "IDLE"
            /\ processingState' = "IDLE"
            /\ lastSnapshotRef' = lastSnapshotRef
            /\ lastTextDescriptionRef' = lastTextDescriptionRef
            /\ \A t \in Ticks : steps'[t] = steps[t]]_vars

C7_Witness ==
    \E t, u \in Ticks :
        /\ t < u
        /\ Finished(t) /\ Truthy(steps[t].result)
        /\ steps[u].outcome = "absent"
        /\ lastSnapshotRef = steps[t].snapshot
        /\ isActive

(* C8: after a stop no tick runs and no analyzer call is started until the *)
(* loop is activated again; the periodic timer is not live while the loop  *)
(* is idle, so a tick it had scheduled does not run.                       *)

C8_NoTickAfterStop ==
    /\ [](~isActive => ~intervalRef)
    /\ [][Len(steps') # Len(steps) => isActive']_vars

C8_Witness ==
    /\ ~isActive
    /\ toggles >= 2
    /\ \E t \in Ticks : InFlight(t)
    /\ \E t \in Ticks : steps[t].outcome = "dropped"

(* C9: no tick runs while the loop is not active or the frame source has   *)
(* not reported ready; when both come to hold one tick fires at once and   *)
(* the timer is set, and every other tick is fired by the timer.           *)

C9_TicksGatedByReadiness ==
    /\ [][Len(steps') # Len(steps) =>
            /\ Len(steps') = Len(steps) + 1
            /\ isActive' /\ isStreamReady'
            /\ \/ ~(isActive /\ isStreamReady)
               \/ /\ intervalRef
                  /\ UNCHANGED << isActive, isStreamReady, intervalRef, logs >>]_vars
    /\ [][(~(isActive /\ isStreamReady) /\ isActive' /\ isStreamReady') =>
            /\ Len(steps') = Len(steps) + 1
            /\ intervalRef']_vars
    /\ [](intervalRef => isActive /\ isStreamReady)

C9_Witness ==
    /\ isActive /\ isStreamReady /\ intervalRef
    /\ Len(steps) >= 2
    /\ steps[1].activation = steps[2].activation
    /\ camPending = 0

(* C10: a failure of the analyzer call reaches the loop as a result value  *)
(* and is only logged: no context push is issued for that tick and the     *)
(* failure text does not become the previous observation.                  *)

C10_FailureOnlyLogged ==
    [][\A t \in Ticks :
          (Settles(t) /\ steps'[t].respKind = "error") =>
              /\ ~steps'[t].pushed
              /\ lastTextDescriptionRef' = lastTextDescriptionRef]_vars

----------------------------------------------------------------------------
(* More vocabulary *)

\* the push of invocation t settles in this step
PushEnds(t) == steps[t].phase = "pushing" /\ steps'[t].phase = "done"

\* the push of invocation t is issued in this step
PushIssued(t) == ~steps[t].pushed /\ steps'[t].pushed

\* the log entries written by invocations of the tick function
RECURSIVE TickEntries(_)
TickEntries(lg) ==
    IF lg = << >> THEN << >>
    ELSE IF Head(lg).tick # 0 THEN <<Head(lg)>> \o TickEntries(Tail(lg))
    ELSE TickEntries(Tail(lg))

\* result is a new description
IsDescription(r) == r # NullString /\ ~SentinelOrEmpty(r)

(* C11: a failing context push is caught: one 'error' log entry is         *)
(* appended and no 'bridge' entry for that tick, the vision loop and its   *)
(* timer are left as they are, the processing state returns to idle and    *)
(* the voice session state is not changed by the handling.                 *)

C11_PushFailureIsContained ==
    /\ [](\A t \in Ticks :
            steps[t].pushOk = "failed" =>
                /\ EntriesOf(logs, "bridge", t) = {}
                /\ Cardinality(EntriesOf(logs, "error", t)) = 1)
    /\ [][\A t \in Ticks :
            (PushEnds(t) /\ steps'[t].pushOk = "failed") =>
                /\ logs' = Append(logs, LogEntry("error", <<"Bridge Sync Failed.">>, t))
                /\ processingState' = "IDLE"
                /\ UNCHANGED << isActive, isStreamReady, intervalRef, status >>]_vars

C11_Witness ==
    \E t \in Ticks :
        /\ steps[t].pushOk = "failed"
        /\ isActive /\ intervalRef
        /\ status = "connected"
        /\ processingState = "IDLE"

(* C12: the text of a context push is the analyzer result of the same      *)
(* tick, which is also the message of the tick's 'visual' log entry and    *)
(* the new previous observation; and when three ticks return a             *)
(* description, the sentinel and a description, the session connecting     *)
(* before the third, the ticks write exactly visual, nothing, visual and   *)
(* bridge.                                                                 *)

C12_Scenario ==
    /\ Len(steps) = 3
    /\ \A t \in 1..3 : Finished(t) /\ steps[t].respKind = "text"
    /\ IsDescription(steps[1].result)
    /\ SentinelOrEmpty(steps[2].result)
    /\ IsDescription(steps[3].result)
    /\ steps[1].status # "connected"
    /\ steps[3].status = "connected"
    /\ steps[3].pushOk = "ok"

C12_PushedTextIsResult ==
    /\ [](\A t \in Ticks :
            steps[t].pushed =>
                /\ steps[t].pushText = steps[t].result
                /\ \E i \in EntriesOf(logs, "visual", t) :
                      logs[i].message = steps[t].pushText)
    /\ [][\A t \in Ticks :
            PushIssued(t) => lastTextDescriptionRef' = steps'[t].pushText]_vars
    /\ [](C12_Scenario =>
            TickEntries(logs) =
                << LogEntry("visual", steps[1].result, 1),
                   LogEntry("visual", steps[3].result, 3),
                   LogEntry("bridge", <<"Context synced to Agent.">>, 3) >>)

C12_Witness ==
    /\ C12_Scenario
    /\ steps[3].pushText = <<"He picks up a mug.">>
    /\ lastTextDescriptionRef = <<"He picks up a mug.">>

(* C13: a push is issued although the loop has been stopped: when the      *)
(* analyzer call of a tick that started with a connected session returns   *)
(* a new description while the loop is idle, the push is issued, and when  *)
(* it succeeds the 'bridge' entry is written.                              *)

C13_LatePushAfterStop ==
    /\ [][\A t \in Ticks :
            (Settles(t) /\ ~isActive /\ steps[t].status = "connected"
                /\ Returned(t)' /\ IsDescription(steps'[t].result)) =>
                /\ PushIssued(t)
                /\ steps'[t].phase = "pushing"]_vars
    /\ [][\A t \in Ticks :
            (PushEnds(t) /\ ~isActive /\ steps'[t].pushOk = "ok") =>
                logs' = Append(logs, LogEntry("bridge", <<"Context synced to Agent.">>, t))]_vars

C13_Witness ==
    /\ ~isActive
    /\ \E t \in Ticks : \E i, j, k \in DOMAIN logs :
          /\ i < j /\ j < k
          /\ logs[i].message = <<"Visual Cortex Deactivated.">>
          /\ logs[j] = LogEntry("visual", steps[t].result, t)
          /\ logs[k].type = "bridge" /\ logs[k].tick = t
          /\ steps[t].pushed

(* C14: a voice connect is attempted only with a non-empty agent id: with  *)
(* an empty agent id the toggle never requests the microphone, never       *)
(* calls startSession and reports an error.                                *)

C14_NoConnectWithoutAgentId ==
    /\ [](agentId = << >> =>
            /\ micPending = 0 /\ startPending = 0 /\ endPending = 0
            /\ status = "disconnected")
    /\ [][(micPending' > micPending \/ startPending' > startPending) =>
            agentId # << >>]_vars
    /\ [][(agentId = << >> /\ voiceEvents' > voiceEvents) =>
            convError' = <<"No Agent ID configured.">>]_vars

C14_Witness ==
    /\ agentId = << >>
    /\ voiceEvents > 0
    /\ convError = <<"No Agent ID configured.">>

\* a connect attempt fails in this step: the microphone is denied, or
\* startSession rejects
ConnectFails ==
    \/ micPending' = micPending - 1 /\ startPending' = startPending
    \/ startPending' = startPending - 1 /\ logs' = logs

(* C15: a failed voice connect is reported as the user-facing error, does  *)
(* not change the vision loop state and leaves the session not connected.  *)

C15_FailedConnectIsContained ==
    [][ConnectFails =>
          /\ Truthy(convError')
          /\ UNCHANGED visionVars
          /\ status' # "connected"]_vars

(* C16: the session status changes only when the service reports a         *)
(* transition (a startSession call that the service takes up or settles,   *)
(* an endSession that settles, a dropped connection); the synchronous      *)
(* part of the local toggle never writes it.                               *)

C16_StatusOnlyFromService ==
    /\ [][status' # status =>
            \/ startPending' # startPending
            \/ endPending' < endPending
            \/ /\ status = "connected" /\ status' = "disconnected"
               /\ logs' = Append(logs, LogEntry("info", <<"Voice Link Terminated.">>, 0))]_vars
    /\ [][(micPending' > micPending \/ endPending' > endPending) =>
            status' = status]_vars

C16_Witness ==
    /\ status = "disconnected"
    /\ micPending > 0
    /\ convError = NullString
    /\ voiceEvents > 0

(* C17: the event log is append-only and insertion-ordered: every step     *)
(* keeps the earlier log as a prefix of the later one, an entry is         *)
(* appended even when the log already holds an equal message, and no       *)
(* entry is ever dropped.                                                  *)

C17_LogAppendOnly ==
    /\ [][/\ Len(logs') >= Len(logs)
          /\ SubSeq(logs', 1, Len(logs)) = logs]_vars
    /\ [][isActive' # isActive => Len(logs') > Len(logs)]_vars
    /\ [][\A t \in Ticks :
            (Settles(t) /\ Returned(t)' /\ IsDescription(steps'[t].result)) =>
                logs' = Append(logs, LogEntry("visual", steps'[t].result, t))]_vars

C17_Witness ==
    \E i, j \in DOMAIN logs :
        /\ i < j
        /\ logs[i].type = logs[j].type
        /\ logs[i].message = logs[j].message
        /\ logs[i].message = <<"Initializing Visual Cortex...">>

----------------------------------------------------------------------------
(* Claims about the pure functions, under SpecPure *)

\* the three conditions under which no frame can be captured
NotCapturable(video) ==
    \/ video.videoWidth = 0 \/ video.videoHeight = 0
    \/ video.readyState < 2
    \/ ~IsFiniteRatio(video.videoHeight, video.videoWidth)

(* C18: getSnapshot returns absent whenever the video has zero width or    *)
(* height, a ready state below 2 or a non-finite aspect ratio, and it      *)
(* produces a snapshot only when none of these holds.                      *)

C18_SnapshotOnlyWhenReady ==
    probe.op = "getSnapshot" =>
        /\ NotCapturable(probe.video) => probe.result = NullSnapshot
        /\ probe.result # NullSnapshot =>
              /\ probe.video.videoWidth > 0 /\ probe.video.videoHeight > 0
              /\ probe.video.readyState >= 2
              /\ probe.result = Frames[1]

C18_Witness ==
    /\ probe.op = "getSnapshot"
    /\ probe.video.videoWidth > 0 /\ probe.video.videoHeight > 0
    /\ probe.video.context
    /\ probe.video.readyState < 2
    /\ probe.result = NullSnapshot

\* the part of an error result that does not depend on the backend's message
Category(result) == Head(result)

(* C19: the analyzer maps each known backend failure kind (rate limit,     *)
(* permission/auth, network, content-safety block) to its own category,    *)
(* different from the others and from the unclassified fallback, and       *)
(* returns it as a value instead of throwing.                              *)

C19_DistinctFailureCategories ==
    probe.op = "analyzeFrame" =>
        /\ probe.resultA.kind = "value"
        /\ probe.a.failure # probe.b.failure =>
              Category(probe.resultA.value) # Category(probe.resultB.value)

\* the inline images of a request, by position
InlineIdx(parts) == {i \in DOMAIN parts : parts[i].kind = "inlineData"}

\* the text is part of the string s
RECURSIVE Contains(_, _)
Contains(s, text) ==
    /\ Len(s) >= Len(text)
    /\ \/ SubSeq(s, 1, Len(text)) = text
       \/ Contains(Tail(s), text)

(* C20: the analyzer request holds, in this order, the prior textual       *)
(* context, the prior image if and only if a previous snapshot was given,  *)
(* and the current image last; the prior observation text is included if   *)
(* and only if a previous observation was given.                           *)

C20_RequestOrder ==
    probe.op = "buildParts" =>
        LET parts == probe.parts
            prevGiven == probe.previousBase64Image # NullString
            descGiven == probe.lastDescription # NullString
            idx == InlineIdx(parts)
        IN  /\ parts[1].kind = "text"
            /\ ~descGiven =>
                  parts[1].text = <<"PREVIOUS DESCRIPTION: None (First observation. Describe the scene briefly.)">>
            /\ descGiven <=> Contains(parts[1].text, probe.lastDescription)
            /\ \A i \in DOMAIN parts :
                  parts[i].kind = "text" =>
                      (Contains(parts[i].text, probe.lastDescription) => i = 1)
            /\ Len(parts) \in idx
            /\ parts[Len(parts)].data = <<probe.base64Image[2]>>
            /\ Cardinality(idx) = IF prevGiven THEN 2 ELSE 1
            /\ prevGiven =>
                  \E i \in idx :
                      /\ 1 < i /\ i < Len(parts)
                      /\ parts[i].data = <<probe.previousBase64Image[2]>>

C20_Witness ==
    /\ probe.op = "buildParts"
    /\ probe.previousBase64Image # NullString
    /\ probe.previousBase64Image # probe.base64Image
    /\ probe.lastDescription = <<"A person enters the room.">>
    /\ Len(probe.parts) = 5

----------------------------------------------------------------------------
(* Claims about the credentials, under SpecConfig *)

\* the value a credential should have: the environment's when it is set,
\* else the stored one
EnvOrStored(fromEnv, stored) == IF Truthy(fromEnv) THEN fromEnv ELSE stored

(* C21: each of the two credentials used at run time is the environment    *)
(* value when one is set and else the value stored in local storage; the  *)
(* key of the analyzer's client is the stored key when the environment     *)
(* has none.                                                               *)

C21_CredentialsFromEnvOrStorage ==
    /\ (~reloadPending /\ (Truthy(env.AGENT_ID) \/ Truthy(localStorage.AGENT_ID))) =>
          agentId = EnvOrStored(env.AGENT_ID, localStorage.AGENT_ID)
    /\ probe.op = "client" =>
          probe.apiKey = EnvOrStored(env.GEMINI_API_KEY,
                                     localStorage.GEMINI_API_KEY)

\* the credential modal is on the screen, App.tsx line 138
ModalShown == ~hasKey

(* C22: the credential modal is shown exactly when neither the environment *)
(* nor the local storage holds a vision key; once a key was submitted and  *)
(* the page has reloaded, the modal is not shown again.                    *)

TrimmedForm ==
    [GEMINI_API_KEY |-> Trim(form.apiKey), AGENT_ID |-> Trim(form.agentId)]

(* C26: a submit with a blank key writes nothing and does not call         *)
(* onConfirm; a submit with a non-blank key stores the trimmed key and     *)
(* the trimmed agent id and calls onConfirm with the stored values; a      *)
(* second submit of the same values leaves the storage unchanged.          *)

C26_SubmitStoresTrimmed ==
    /\ [][Trim(form.apiKey) = << >> =>
            /\ localStorage' = localStorage
            /\ confirmed' = confirmed
            /\ ~(reloadPending' /\ ~reloadPending)]_vars
    /\ [][(localStorage' # localStorage \/ confirmed' # confirmed
              \/ (reloadPending' /\ ~reloadPending)) =>
            /\ Trim(form.apiKey) # << >>
            /\ localStorage' = TrimmedForm
            /\ confirmed' = [apiKey |-> localStorage'.GEMINI_API_KEY,
                             agentId |-> localStorage'.AGENT_ID]
            /\ reloadPending']_vars
    /\ [][(Trim(form.apiKey) # << >> /\ localStorage = TrimmedForm) =>
            localStorage' = localStorage]_vars

C26_Witness ==
    /\ reloadPending
    /\ form = [apiKey |-> <<" ", "key1", " ">>, agentId |-> <<" ", "agent1", " ">>]
    /\ localStorage = [GEMINI_API_KEY |-> <<"key1">>, AGENT_ID |-> <<"agent1">>]
    /\ confirmed = [apiKey |-> <<"key1">>, agentId |-> <<"agent1">>]

----------------------------------------------------------------------------
(* Claims about the loop and the session, second part *)

\* an invocation of the tick function is appended in this step
TickRuns == Len(steps') = Len(steps) + 1

(* C23: nothing in the bridge loop is fatal: whatever the outcome of an    *)
(* accepted tick, the processing state returns to idle once the pending    *)
(* analyzer and push calls complete, and a tick that runs while the state  *)
(* is idle is accepted again.                                              *)

C23_LoopRecovers ==
    /\ (processingState = "ANALYZING") ~> (processingState = "IDLE")
    /\ [][\A t \in Ticks :
            (steps[t].phase # "done" /\ steps'[t].phase = "done") =>
                processingState' = "IDLE"]_vars
    /\ [][(TickRuns /\ processingState = "IDLE") =>
            steps'[Len(steps')].outcome # "dropped"]_vars

C23_Witness ==
    \E t, u \in Ticks :
        /\ t < u
        /\ Finished(t) /\ steps[t].respKind = "throw"
        /\ Finished(u) /\ steps[u].pushOk = "failed"
        /\ steps[t].activation = steps[u].activation
        /\ processingState = "IDLE"

\* what the log tells about the previous observation: the last 'visual'
\* entry written after the last stop
RECURSIVE LastObservation(_)
LastObservation(lg) ==
    IF lg = << >> THEN NullString
    ELSE LET e == lg[Len(lg)] IN
         IF e.type = "visual" THEN e.message
         ELSE IF e.type = "info" /\ e.message = <<"Visual Cortex Deactivated.">>
              THEN NullString
         ELSE LastObservation(SubSeq(lg, 1, Len(lg) - 1))

(* C24: the previous observation passed to an analyzer call is the most    *)
(* recent non-sentinel, non-empty result applied since the last stop, or   *)
(* absent when there has been none; a sentinel or empty result leaves it   *)
(* as it is.                                                               *)

C24_PreviousObservation ==
    /\ [](lastTextDescriptionRef = LastObservation(logs))
    /\ [](\A i \in DOMAIN logs :
            logs[i].type = "visual" =>
                /\ logs[i].message = steps[logs[i].tick].result
                /\ ~SentinelOrEmpty(logs[i].message))
    /\ [][(TickRuns /\ steps'[Len(steps')].outcome = "accepted") =>
            steps'[Len(steps')].prevText = LastObservation(logs)]_vars
    /\ [][\A t \in Ticks :
            (Settles(t) /\ Returned(t)' /\ SentinelOrEmpty(steps'[t].result)) =>
                lastTextDescriptionRef' = lastTextDescriptionRef]_vars

C24_Witness ==
    \E t, u, v \in Ticks :
        /\ t < u /\ u < v
        /\ Finished(t) /\ IsDescription(steps[t].result)
        /\ Finished(u) /\ Returned(u) /\ SentinelOrEmpty(steps[u].result)
        /\ Accepted(v) /\ steps[v].prevText = steps[t].result
        /\ steps[t].activation = steps[v].activation

\* a click on the voice button is handled in this step
VoiceToggled == voiceEvents' = voiceEvents + 1 /\ status' = status

(* C25: the voice toggle calls endSession and never startSession when the  *)
(* session is connected; else it requests the microphone first, and        *)
(* startSession is called only when the request was granted, never when    *)
(* it was denied.                                                          *)

C25_ToggleOrder ==
    /\ [][(VoiceToggled /\ Truthy(agentId) /\ status = "connected") =>
            /\ endPending' = endPending + 1
            /\ UNCHANGED << micPending, startPending >>]_vars
    /\ [][(VoiceToggled /\ Truthy(agentId) /\ status # "connected") =>
            /\ micPending' = micPending + 1
            /\ UNCHANGED << startPending, endPending >>]_vars
    /\ [][startPending' > startPending => micPending' = micPending - 1]_vars
    /\ [][micPending' < micPending =>
            \/ /\ startPending' = startPending + 1
               /\ convError' = convError
            \/ /\ startPending' = startPending
               /\ convError' = <<"Permission denied">>]_vars

C25_Witness ==
    /\ convError = <<"Permission denied">>
    /\ voiceEvents > 0
    /\ micPending = 0 /\ startPending = 0
    /\ status = "disconnected"

(* C27: at most one periodic timer is live at any time, and a timer is     *)
(* live only while the loop is active and the frame source is ready.       *)

C27_AtMostOneTimer ==
    /\ timers <= 1
    /\ timers > 0 => (isActive /\ isStreamReady)
    /\ intervalRef <=> timers = 1

C27_Witness ==
    /\ timers = 1
    /\ toggles >= 3
    /\ isStreamReady

(* C28: the frame source reports ready only while the loop is active, and  *)
(* no camera stream is live once the loop is inactive, also when a camera  *)
(* request resolves after the stop.                                        *)

C28_NoCameraAfterStop ==
    /\ isStreamReady => isActive
    /\ ~isActive => ~srcObject

(* C29: at most one voice connect attempt (microphone request followed by  *)
(* startSession) is in flight at any time.                                 *)

C29_OneConnectAttempt == micPending + startPending <= 1

(* C30: starting or stopping the vision loop leaves the voice session      *)
(* state unchanged and issues no startSession or endSession call, and a    *)
(* change of the voice session leaves the vision loop state, its timer     *)
(* and both previous references unchanged.                                 *)

C30_VisionVoiceIndependent ==
    /\ [][toggles' # toggles =>
            UNCHANGED << status, micPending, startPending, endPending >>]_vars
    /\ [][(status' # status \/ micPending' # micPending
              \/ startPending' # startPending \/ endPending' # endPending) =>
            UNCHANGED << isActive, isStreamReady, processingState, intervalRef,
                         timers, lastSnapshotRef, lastTextDescriptionRef >>]_vars

C30_Witness ==
    /\ status = "connected"
    /\ ~isActive
    /\ toggles >= 2
    /\ endPending = 0

====
